---- MODULE Spec2Model ----
(***************************************************************************)
(* Model of pa-permission-rollback-simulator (src/main.py).                *)
(*                                                                         *)
(* PermissionRollbackSimulator keeps a permission mapping                  *)
(* (file_system_data, an insertion-ordered dict from resource path to the  *)
(* list of principals granted access) and a networkx DiGraph.              *)
(* build_dependency_graph adds one edge principal -> resource per grant,   *)
(* simulate_rollback removes the outgoing edges of a target principal and  *)
(* returns the directly impacted and the no-longer-reachable resources.    *)
(* main() is the command-line run around these two operations.             *)
(***************************************************************************)
EXTENDS Integers, Sequences, FiniteSets, TLC

\* Bounds of the model.
MaxLen == 2     \* longest permission list
MaxCalls == 2   \* most simulate_rollback calls on one graph between two builds

\* Identifiers: opaque strings, any of which may act as principal or as
\* target.  Those of Resources also occur as mapping keys, so "G" and "R"
\* can be resource and principal at once (delegation chains, self-grants).
Resources == {"G", "R"}
Ids == Resources \cup {"u1"}

VARIABLES
    file_system_data,   \* self.file_system_data: sequence of [path, permissions] (dict order)
    graph,              \* self.graph: [nodes, edges]
    returned,           \* value returned by the last method call: <<>> (None) or <<[impacted_resources, indirectly_impacted_resources]>>
    raised,             \* TRUE iff the last method call raised
    built,              \* history: build_dependency_graph has been called
    calls,              \* history: targets of the simulate_rollback calls since construction or the last build
    prev_graph,         \* history: self.graph as it was when the last simulate_rollback call started
    pc,                 \* position of main(); "lib" when the class is driven directly
    env,                \* what main() finds: [parse, user, exists, content]
    exit_status,        \* process exit status, -1 while running
    printed             \* what main() has written: sequence of message kinds

vars == <<file_system_data, graph, returned, raised, built, calls, prev_graph,
          pc, env, exit_status, printed>>

coreVars == <<file_system_data, graph, returned, raised, built, calls, prev_graph>>
cliVars == <<pc, env, exit_status, printed>>

----------------------------------------------------------------------------
\* Permission mappings (Dict[str, List[str]]).

Range(s) == {s[i] : i \in DOMAIN s}

PermLists == UNION {[1..n -> Ids] : n \in 0..MaxLen}

Entries == [path : Resources, permissions : PermLists]

Mappings ==
    {d \in UNION {[1..n -> Entries] : n \in 0..Cardinality(Resources)} :
        \A i, j \in DOMAIN d : i # j => d[i].path # d[j].path}

\* file_system_data.keys()
Keys(data) == {data[i].path : i \in DOMAIN data}

\* file_system_data[node]
Lookup(data, node) == (CHOOSE i \in DOMAIN data : data[i].path = node)
Permissions(data, node) == data[Lookup(data, node)].permissions

\* nx.DiGraph()
EmptyGraph == [nodes |-> {}, edges |-> {}]

----------------------------------------------------------------------------
\* build_dependency_graph

add_node(g, n) == [g EXCEPT !.nodes = @ \cup {n}]

add_edge_reversed(g, u, v) ==
    [nodes |-> g.nodes \cup {u, v}, edges |-> g.edges \cup {<<v, u>>}]

add_edge(g, u, v) ==
    [nodes |-> g.nodes \cup {u, v}, edges |-> g.edges \cup {<<u, v>>}]

\* for user in permissions: self.graph.add_edge(user, path)
RECURSIVE add_permissions(_, _, _)
add_permissions(g, path, permissions) ==
    IF permissions = <<>> THEN g
    ELSE add_permissions(add_edge(g, Head(permissions), path), path, Tail(permissions))

\* for path, permissions in self.file_system_data.items(): ...
RECURSIVE build_dependency_graph(_, _)
build_dependency_graph(g, items) ==
    IF items = <<>> THEN g
    ELSE build_dependency_graph(
            add_permissions(add_node(g, Head(items).path),
                            Head(items).path, Head(items).permissions),
            Tail(items))

----------------------------------------------------------------------------
\* simulate_rollback

\* step 1: for u, v in self.graph.edges(): if u == target_user: add v
impacted_after_removal(g, target_user) == {}

impacted(g, target_user) ==
    {e[2] : e \in {e \in g.edges : e[1] = target_user}}

\* edges_to_remove = [(u, v) for u, v in self.graph.edges() if u == target_user]
edges_to_remove_incident(g, target_user) ==
    {e \in g.edges : e[1] = target_user \/ e[2] = target_user}

edges_to_remove(g, target_user) == {e \in g.edges : e[1] = target_user}

\* self.graph.remove_edges_from(edges_to_remove)
remove_edges_and_isolates(g, ebunch) ==
    LET es == g.edges \ ebunch
    IN [nodes |-> {n \in g.nodes : \E e \in es : n = e[1] \/ n = e[2]},
        edges |-> es]

remove_nothing(g, ebunch) == g

remove_edges_from(g, ebunch) == [g EXCEPT !.edges = @ \ ebunch]

successors(g, n) == {e[2] : e \in {e \in g.edges : e[1] = n}}

\* breadth-first search from the frontier, never revisiting a visited node
RECURSIVE bfs(_, _, _)
bfs(g, visited, frontier) ==
    IF frontier = {} THEN visited
    ELSE LET next == (UNION {successors(g, n) : n \in frontier}) \ visited
         IN bfs(g, visited \cup next, next)

\* nx.descendants(G, source): the nodes reached from source, source excluded
descendants_with_source(g, source) == bfs(g, {source}, {source})

descendants(g, source) == bfs(g, {source}, {source}) \ {source}

\* try: ... nx.descendants(self.graph, user) ... except nx.NetworkXError: pass
\* (nx.descendants raises NetworkXError when the source is not a node)
reachable_paths(g, user) ==
    IF user \in g.nodes THEN descendants(g, user) ELSE {}

\* if isinstance(node, str) and node in self.file_system_data.keys()
is_resource_unguarded(data, node) == TRUE

is_resource(data, node) == node \in Keys(data)

\* the nodes for which the loop body runs
resource_nodes(g, data) == {node \in g.nodes : is_resource(data, node)}

\* self.file_system_data[node] raises KeyError for a node that is not a key
key_error(g, data) == \E node \in resource_nodes(g, data) : node \notin Keys(data)

\* accessible_resources, when no lookup raises
accessible_resources(g, data) ==
    UNION {reachable_paths(g, user) :
            user \in UNION {Range(Permissions(data, node)) :
                                node \in resource_nodes(g, data)}}

\* What the call leaves behind: the graph mutated in place (line 70), and
\* either the returned pair or the re-raised exception.
rollback_result_on_copy(g, g2, data, target_user) ==
    IF key_error(g2, data)
    THEN [graph |-> g, raised |-> TRUE, returned |-> <<>>]
    ELSE [graph |-> g, raised |-> FALSE,
          returned |-> <<[impacted_resources |-> impacted(g, target_user),
                          indirectly_impacted_resources |->
                              Keys(data) \ accessible_resources(g2, data)]>>]

rollback_result(g, g2, data, target_user) ==
    IF key_error(g2, data)
    THEN [graph |-> g2, raised |-> TRUE, returned |-> <<>>]
    ELSE [graph |-> g2, raised |-> FALSE,
          returned |-> <<[impacted_resources |-> impacted(g, target_user),
                          indirectly_impacted_resources |->
                              Keys(data) \ accessible_resources(g2, data)]>>]

\* The whole call.
simulate_rollback(g, data, target_user) ==
    rollback_result(g, remove_edges_from(g, edges_to_remove(g, target_user)),
                    data, target_user)

----------------------------------------------------------------------------
\* The class driven directly: construct, then any calls of the two methods.

NoRun == [parse |-> "ok", user |-> "u1", exists |-> FALSE,
          content |-> [kind |-> "none", items |-> <<>>]]

Init ==
    /\ file_system_data \in Mappings
    /\ graph = EmptyGraph
    /\ returned = <<>>
    /\ raised = FALSE
    /\ built = FALSE
    /\ calls = <<>>
    /\ prev_graph = EmptyGraph
    /\ pc = "lib"
    /\ env = NoRun
    /\ exit_status = -1
    /\ printed = <<>>

BuildDependencyGraph ==
    /\ pc = "lib"
    /\ graph' = build_dependency_graph(graph, file_system_data)
    /\ returned' = <<>>
    /\ raised' = FALSE
    /\ built' = TRUE
    /\ calls' = <<>>
    /\ prev_graph' = graph'
    /\ UNCHANGED <<file_system_data, cliVars>>

SimulateRollback ==
    /\ pc = "lib"
    /\ Len(calls) < MaxCalls
    /\ \E target_user \in Ids :
        LET r == simulate_rollback(graph, file_system_data, target_user)
        IN /\ graph' = r.graph
           /\ returned' = r.returned
           /\ raised' = r.raised
           /\ calls' = Append(calls, target_user)
           /\ prev_graph' = graph
    /\ UNCHANGED <<file_system_data, built, cliVars>>

Next == BuildDependencyGraph \/ SimulateRollback

Spec == Init /\ [][Next]_vars

----------------------------------------------------------------------------
\* main(): the command-line run.

\* What json.load can produce from the data file.
Elements == [is_str : {TRUE}, s : Ids] \cup {[is_str |-> FALSE, s |-> "0"]}

JsonLists == UNION {[1..n -> Elements] : n \in 0..MaxLen}

JsonValues == [is_list : {TRUE}, elems : JsonLists]
                \cup {[is_list |-> FALSE, elems |-> <<>>]}

JsonEntries == [path : Resources, value : JsonValues]

JsonDicts ==
    {d \in UNION {[1..n -> JsonEntries] : n \in 0..Cardinality(Resources)} :
        \A i, j \in DOMAIN d : i # j => d[i].path # d[j].path}

\* unreadable: open/read raises; undecodable: json.JSONDecodeError;
\* not_dict: a JSON value that is no object; dict: a JSON object
Contents ==
    {[kind |-> k, items |-> <<>>] : k \in {"unreadable", "undecodable", "not_dict"}}
        \cup {[kind |-> "dict", items |-> d] : d \in JsonDicts}

\* The runs: the command line either fails to parse, asks for help, or names
\* a user and a data file that is missing or holds some content.
CliRuns ==
    {[NoRun EXCEPT !.parse = p, !.exists = x] : p \in {"error", "help"}, x \in BOOLEAN}
        \cup {[NoRun EXCEPT !.user = u] : u \in Ids}
        \cup {[parse |-> "ok", user |-> u, exists |-> TRUE, content |-> c] :
                u \in Ids, c \in Contents}

\* for k, v in file_system_data.items(): the first failing check decides
validate_lists_only(items) ==
    IF \E i \in DOMAIN items : ~ items[i].value.is_list THEN "not_list" ELSE "ok"

RECURSIVE validate(_)
validate(items) ==
    IF items = <<>> THEN "ok"
    ELSE LET v == Head(items).value
         IN IF ~ v.is_list THEN "not_list"
            ELSE IF \E j \in DOMAIN v.elems : ~ v.elems[j].is_str THEN "not_str"
            ELSE validate(Tail(items))

\* the validated dict as the mapping handed to the simulator
to_mapping(items) ==
    [i \in DOMAIN items |->
        [path |-> items[i].path,
         permissions |-> [j \in DOMAIN items[i].value.elems |->
                            items[i].value.elems[j].s]]]

\* print(...); sys.exit(status)
Exit(message, status) ==
    /\ printed' = Append(printed, message)
    /\ exit_status' = status
    /\ pc' = "exited"

InitCLI ==
    /\ file_system_data = <<>>
    /\ graph = EmptyGraph
    /\ returned = <<>>
    /\ raised = FALSE
    /\ built = FALSE
    /\ calls = <<>>
    /\ prev_graph = EmptyGraph
    /\ pc = "parse_args"
    /\ env \in CliRuns
    /\ exit_status = -1
    /\ printed = <<>>

\* args = parser.parse_args(): argparse exits by itself (SystemExit is not
\* caught by except Exception) with status 2 on a usage error, 0 on --help
ParseArgs ==
    /\ pc = "parse_args"
    /\ CASE env.parse = "error" -> Exit("usage", 2)
         [] env.parse = "help" -> Exit("help", 0)
         [] OTHER -> /\ pc' = "check_exists"
                     /\ UNCHANGED <<exit_status, printed>>
    /\ UNCHANGED <<coreVars, env>>

\* if not os.path.exists(args.data_file)
CheckDataFile ==
    /\ pc = "check_exists"
    /\ IF ~ env.exists
       THEN Exit("not_found", 1)
       ELSE /\ pc' = "load"
            /\ UNCHANGED <<exit_status, printed>>
    /\ UNCHANGED <<coreVars, env>>

\* with open(...) as f: file_system_data = json.load(f)
LoadData ==
    /\ pc = "load"
    /\ CASE env.content.kind = "undecodable" -> Exit("decode_error", 1)
         [] env.content.kind = "unreadable" -> Exit("load_error", 1)
         [] OTHER -> /\ pc' = "validate"
                     /\ UNCHANGED <<exit_status, printed>>
    /\ UNCHANGED <<coreVars, env>>

\* the isinstance checks
ValidateData ==
    /\ pc = "validate"
    /\ IF env.content.kind # "dict"
       THEN Exit("not_dict", 1)
       ELSE IF validate(env.content.items) # "ok"
       THEN Exit(validate(env.content.items), 1)
       ELSE /\ pc' = "construct"
            /\ UNCHANGED <<exit_status, printed>>
    /\ UNCHANGED <<coreVars, env>>

\* simulator = PermissionRollbackSimulator(file_system_data)
Construct ==
    /\ pc = "construct"
    /\ file_system_data' = to_mapping(env.content.items)
    /\ graph' = EmptyGraph
    /\ pc' = "build"
    /\ UNCHANGED <<returned, raised, built, calls, prev_graph, env, exit_status, printed>>

\* simulator.build_dependency_graph()
MainBuild ==
    /\ pc = "build"
    /\ graph' = build_dependency_graph(graph, file_system_data)
    /\ built' = TRUE
    /\ prev_graph' = graph'
    /\ pc' = "simulate"
    /\ UNCHANGED <<file_system_data, returned, raised, calls, env, exit_status, printed>>

\* simulator.simulate_rollback(args.user); an exception reaches the handler
\* of main, which prints and exits with status 1
MainSimulate ==
    /\ pc = "simulate"
    /\ LET r == simulate_rollback(graph, file_system_data, env.user)
       IN /\ graph' = r.graph
          /\ returned' = r.returned
          /\ raised' = r.raised
          /\ calls' = Append(calls, env.user)
          /\ prev_graph' = graph
          /\ IF r.raised
             THEN Exit("unexpected", 1)
             ELSE /\ pc' = "display"
                  /\ UNCHANGED <<exit_status, printed>>
    /\ UNCHANGED <<file_system_data, built, env>>

\* simulator.display_results(...): the table is printed and main returns
DisplayResults ==
    /\ pc = "display"
    /\ Exit("table", 0)
    /\ UNCHANGED <<coreVars, env>>

\* simulator.display_results(...): console.print raises (rich rejects a
\* resource name that is malformed console markup); main's handler exits 1
DisplayRaises ==
    /\ pc = "display"
    /\ Exit("unexpected", 1)
    /\ UNCHANGED <<coreVars, env>>

NextCLI ==
    \/ ParseArgs
    \/ CheckDataFile
    \/ LoadData
    \/ ValidateData
    \/ Construct
    \/ MainBuild
    \/ MainSimulate
    \/ DisplayResults
    \/ DisplayRaises

SpecCLI == InitCLI /\ [][NextCLI]_vars

----------------------------------------------------------------------------
\* Reference definitions for the properties, stated on the mapping itself.

\* every principal appearing in any value list
GrantedPrincipals(data) == UNION {Range(data[i].permissions) : i \in DOMAIN data}

\* P -> R for every P listed in mapping[R]
GrantEdges(data) ==
    UNION {{<<P, data[i].path>> : P \in Range(data[i].permissions)} : i \in DOMAIN data}

\* transitive closure of an edge set (Warshall)
RECURSIVE Warshall(_, _)
Warshall(E, S) ==
    IF S = {} THEN E
    ELSE LET k == CHOOSE x \in S : TRUE
             W == Warshall(E, S \ {k})
         IN W \cup {ab \in Ids \X Ids : <<ab[1], k>> \in W /\ <<k, ab[2]>> \in W}

\* nodes reachable from P by one or more edges of E, P itself excluded
ReachableFrom(E, P) == {n \in Ids : <<P, n>> \in Warshall(E, Ids)} \ {P}

\* keys reachable from no originally granted principal along the edges E
Orphans(data, E) ==
    Keys(data) \ UNION {ReachableFrom(E, P) : P \in GrantedPrincipals(data)}

OutEdges(E, sources) == {e \in E : e[1] \in sources}

Last(s) == s[Len(s)]

\* the mappings that differ from data only in key order and in the order or
\* multiplicity of list elements
RECURSIVE ListVariants(_)
ListVariants(data) ==
    IF data = <<>> THEN {<<>>}
    ELSE {<<[path |-> Head(data).path, permissions |-> l]>> \o rest :
            l \in {m \in PermLists : Range(m) = Range(Head(data).permissions)},
            rest \in ListVariants(Tail(data))}

Reorderings(data) ==
    {[i \in DOMAIN d |-> d[f[i]]] :
        d \in ListVariants(data),
        f \in {f \in [DOMAIN data -> DOMAIN data] :
                    \A i, j \in DOMAIN data : i # j => f[i] # f[j]}}

\* the state right after a simulate_rollback call
AfterCall == pc = "lib" /\ calls # <<>>

\* the state right after the first simulate_rollback call on a freshly built graph
FirstCallOnFresh == pc = "lib" /\ built /\ Len(calls) = 1

FreshGraph == build_dependency_graph(EmptyGraph, file_system_data)

----------------------------------------------------------------------------
\* C1: on a freshly built graph, IndirectImpact is the set of keys minus the
\* union, over every principal listed for any key, of the nodes reachable from
\* it (itself excluded) once the target's outgoing edges are removed.
C1_IndirectImpact ==
    FirstCallOnFresh =>
        /\ returned # <<>>
        /\ returned[1].indirectly_impacted_resources =
              Orphans(file_system_data,
                      GrantEdges(file_system_data)
                          \ OutEdges(GrantEdges(file_system_data), {calls[1]}))

\* a first call that revokes grants, orphans some key and leaves another reachable
C1_Witness ==
    /\ FirstCallOnFresh
    /\ returned # <<>>
    /\ returned[1].impacted_resources # {}
    /\ returned[1].indirectly_impacted_resources # {}
    /\ returned[1].indirectly_impacted_resources # Keys(file_system_data)

\* C2: DirectImpact is exactly the set of heads of the target's outgoing edges
\* as they were when the call started; on a fresh graph these are the keys
\* whose list contains the target; it is empty for a target without outgoing
\* edges or one that is not a node.
C2_DirectImpact ==
    AfterCall =>
        /\ returned # <<>>
        /\ returned[1].impacted_resources =
              {R \in Ids : <<Last(calls), R>> \in prev_graph.edges}
        /\ FirstCallOnFresh =>
              returned[1].impacted_resources =
                {R \in Keys(file_system_data) :
                    calls[1] \in Range(Permissions(file_system_data, R))}
        /\ (Last(calls) \notin prev_graph.nodes
               \/ ~ \E e \in prev_graph.edges : e[1] = Last(calls)) =>
              returned[1].impacted_resources = {}

\* a first call whose target holds two grants
C2_Witness ==
    /\ FirstCallOnFresh
    /\ returned # <<>>
    /\ Cardinality(returned[1].impacted_resources) = 2

\* C3: the second of two calls with different targets on one graph reports
\* the orphans of the graph that lost the outgoing edges of both targets.
C3_Cumulative ==
    (pc = "lib" /\ built /\ Len(calls) = 2 /\ calls[1] # calls[2]) =>
        /\ returned # <<>>
        /\ returned[1].indirectly_impacted_resources =
              Orphans(file_system_data,
                      GrantEdges(file_system_data)
                          \ OutEdges(GrantEdges(file_system_data), {calls[1], calls[2]}))

\* a second call whose IndirectImpact differs from the one a fresh graph gives
C3_Witness ==
    /\ pc = "lib" /\ built /\ Len(calls) = 2 /\ calls[1] # calls[2]
    /\ returned # <<>>
    /\ LET fresh == simulate_rollback(FreshGraph, file_system_data, calls[2])
       IN /\ fresh.returned # <<>>
          /\ returned[1].indirectly_impacted_resources
                # fresh.returned[1].indirectly_impacted_resources

\* C4: simulate_rollback never raises and returns a pair of sets, whatever
\* the target and however many calls came before.
C4_Total ==
    /\ ~raised
    /\ AfterCall =>
          /\ Len(returned) = 1
          /\ returned[1].impacted_resources \subseteq Ids
          /\ returned[1].indirectly_impacted_resources \subseteq Ids

\* a call on a built graph for a target that appears nowhere in the mapping
C4_Witness ==
    /\ AfterCall /\ built
    /\ Last(calls) \notin Keys(file_system_data) \cup GrantedPrincipals(file_system_data)
    /\ Keys(file_system_data) # GrantedPrincipals(file_system_data)
    /\ Len(returned) = 1

\* C5: a freshly built graph has the edge P -> R iff P occurs in mapping[R],
\* one edge per ordered pair, so key order, element order and multiplicity
\* make no difference.
C5_Build ==
    (pc = "lib" /\ built /\ calls = <<>>) =>
        /\ graph.edges = {pr \in Ids \X Ids :
                            /\ pr[2] \in Keys(file_system_data)
                            /\ pr[1] \in Range(Permissions(file_system_data, pr[2]))}
        /\ graph.nodes = Keys(file_system_data) \cup GrantedPrincipals(file_system_data)
        /\ \A d \in Reorderings(file_system_data) :
              build_dependency_graph(EmptyGraph, d) = graph

\* a graph built from a list with a duplicate principal
C5_Witness ==
    /\ pc = "lib" /\ built /\ calls = <<>>
    /\ \E i \in DOMAIN file_system_data :
          LET l == file_system_data[i].permissions
          IN Len(l) = 2 /\ l[1] = l[2] /\ l[1] # file_system_data[i].path
    /\ Cardinality(graph.edges) = 1

\* C6: once built, the node set is the mapping keys plus every listed
\* principal, whatever rollbacks follow.
C6_Nodes ==
    (pc = "lib" /\ built) =>
        graph.nodes = Keys(file_system_data) \cup GrantedPrincipals(file_system_data)

\* two rollbacks later every edge is gone and every node is still there
C6_Witness ==
    /\ pc = "lib" /\ built /\ Len(calls) = 2
    /\ prev_graph.edges # {}
    /\ graph.edges = {}
    /\ Cardinality(graph.nodes) = 3

\* C7: a call removes exactly the edges whose source is the target.
C7_Frame ==
    AfterCall =>
        /\ graph.edges = prev_graph.edges \ OutEdges(prev_graph.edges, {Last(calls)})
        /\ \A e \in prev_graph.edges : e[1] # Last(calls) => e \in graph.edges
        /\ ~ \E e \in graph.edges : e[1] = Last(calls)
        /\ (OutEdges(prev_graph.edges, {Last(calls)}) = {}) => graph.edges = prev_graph.edges

\* a call whose target had an outgoing edge and an incoming edge from elsewhere
C7_Witness ==
    /\ AfterCall
    /\ \E e \in prev_graph.edges : e[1] = Last(calls)
    /\ \E e \in prev_graph.edges : e[2] = Last(calls) /\ e[1] # Last(calls)

\* C10: on a freshly built graph a key is in IndirectImpact iff every
\* principal in its list is the target or the key itself.
C10_OrphanIff ==
    FirstCallOnFresh =>
        /\ returned # <<>>
        /\ \A R \in Keys(file_system_data) :
              R \in returned[1].indirectly_impacted_resources
              <=> \A P \in Range(Permissions(file_system_data, R)) :
                      P = calls[1] \/ P = R

\* an empty-list key and a self-granted key both reported although the
\* target holds no grant
C10_Witness ==
    /\ FirstCallOnFresh
    /\ returned # <<>>
    /\ returned[1].impacted_resources = {}
    /\ \E R1, R2 \in returned[1].indirectly_impacted_resources :
          /\ Permissions(file_system_data, R1) = <<>>
          /\ Permissions(file_system_data, R2) = <<R2>>

\* C8: IndirectImpact can contain a resource the target never held a grant
\* to and which some granted principal could reach before the revocation:
\* there are a mapping and a target for which a freshly built graph gives
\* such a resource.
C8_TransitiveOrphanExists ==
    pc = "lib" =>
    \E data \in Mappings, target_user \in Ids :
        LET g == build_dependency_graph(EmptyGraph, data)
            r == simulate_rollback(g, data, target_user)
        IN \E R \in Keys(data) :
            /\ r.returned # <<>>
            /\ R \in r.returned[1].indirectly_impacted_resources
            /\ target_user \notin Range(Permissions(data, R))
            /\ \E P \in GrantedPrincipals(data) : R \in descendants(g, P)

\* What the code does instead: a key reported by a first call on a fresh
\* graph either lists the target or was reachable from nobody to begin with.
C8_OnlyDirectOrNeverReachable ==
    FirstCallOnFresh =>
        \A R \in returned[1].indirectly_impacted_resources :
            \/ calls[1] \in Range(Permissions(file_system_data, R))
            \/ ~ \E P \in GrantedPrincipals(file_system_data) :
                    R \in ReachableFrom(GrantEdges(file_system_data), P)

\* the chain u1 -> G -> R with u1 revoked: G is reported, R is not
C8_ChainState ==
    /\ FirstCallOnFresh
    /\ calls = <<"u1">>
    /\ GrantEdges(file_system_data) = {<<"u1", "G">>, <<"G", "R">>}
    /\ returned[1].indirectly_impacted_resources = {"G"}

----------------------------------------------------------------------------
\* The command-line run.

WellFormed(content) ==
    /\ content.kind = "dict"
    /\ \A i \in DOMAIN content.items :
          /\ content.items[i].value.is_list
          /\ \A j \in DOMAIN content.items[i].value.elems :
                content.items[i].value.elems[j].is_str

\* the data file is missing, is not valid JSON, or has the wrong shape
BadDataFile ==
    \/ ~ env.exists
    \/ env.content.kind \in {"undecodable", "not_dict"}
    \/ env.content.kind = "dict" /\ ~ WellFormed(env.content)

PassesAllChecks == env.exists /\ WellFormed(env.content)

CoreExecuted == built \/ calls # <<>>

CoreCompleted == built /\ calls = <<env.user>> /\ ~ raised /\ Len(returned) = 1

\* C9 as stated: the core never runs on a bad data file; every run with a
\* bad data file or a raising core ends with a message and status 1; only a
\* run that passed the checks and completed the core ends with status 0.
C9_AsStated ==
    pc # "lib" =>
        /\ BadDataFile => ~ CoreExecuted
        /\ (pc = "exited" /\ (BadDataFile \/ raised)) =>
              exit_status = 1 /\ printed # <<>>
        /\ exit_status = 0 => PassesAllChecks /\ CoreCompleted

\* C9 amended: the same for the runs whose command line parses; a run whose
\* command line does not parse ends in argparse, with status 2 on a usage
\* error and status 0 on --help, and never runs the core.
C9_ParsedRuns ==
    pc # "lib" =>
        /\ CoreExecuted => env.parse = "ok" /\ PassesAllChecks
        /\ (pc = "exited" /\ env.parse = "ok" /\ (~ PassesAllChecks \/ raised)) =>
              exit_status = 1 /\ printed # <<>>
        /\ (exit_status = 0 /\ env.parse = "ok") => PassesAllChecks /\ CoreCompleted
        /\ (pc = "exited" /\ env.parse = "error") =>
              exit_status = 2 /\ printed # <<>> /\ ~ CoreExecuted
        /\ (pc = "exited" /\ env.parse = "help") =>
              exit_status = 0 /\ printed # <<>> /\ ~ CoreExecuted

\* a run stopped by a non-string element in the list of the second key
C9_Witness ==
    /\ pc = "exited"
    /\ env.parse = "ok" /\ env.exists /\ env.content.kind = "dict"
    /\ Len(env.content.items) = 2
    /\ env.content.items[1].value.is_list
    /\ \E j \in DOMAIN env.content.items[2].value.elems :
          ~ env.content.items[2].value.elems[j].is_str
    /\ printed = <<"not_str">>
    /\ exit_status = 1
    /\ ~ CoreExecuted

====
